---------------------------- MODULE Spec2Model ----------------------------
(***************************************************************************)
(* A model of the cash-flow forecasting engine of src/cash_flowpred.py:    *)
(* the CashFlowPredictor object (its config `inputs` and its snapshot list *)
(* `predictions`) and its public operations predict, get_summary,          *)
(* get_chart_data, get_income_pie_chart_data and to_json.                  *)
(*                                                                         *)
(* Arithmetic is exact.  Money amounts are integers (currency units); the  *)
(* one amount that can be a half unit, critical_threshold (its default is  *)
(* warning_threshold * 0.5), is kept in HALF units everywhere.  Quotients  *)
(* (means, rates) are normalised fractions <<numerator, denominator>>.     *)
(* Growth rates are drawn from the rates r for which (1 + r) is a perfect  *)
(* twelfth power, so that (1 + r) ** (month / 12) is an integer.           *)
(***************************************************************************)
EXTENDS Integers, Sequences, FiniteSets, TLC

VARIABLES
    pc,            \* "new" before CashFlowPredictor(inputs) ran, then "ready"
    inputs,        \* the CashFlowInput object, shared by the caller and self.inputs
    now,           \* what datetime.now() reads, as a day number (day 0 = 1 Jan of year 0)
    predictions,   \* self.predictions
    lastOp,        \* the name of the last public method called
    ret,           \* what that call returned or raised: [kind, value]
    summaryStreak, \* how many get_summary calls in a row end here (capped at 2)
    threads        \* the calls of concurrent threads on the predictor: for each
                   \* thread its position, method, local variables and result

vars == <<pc, inputs, now, predictions, lastOp, ret, summaryStreak, threads>>

---------------------------------------------------------------------------
(* Bounds of the model *)

MaxHorizon == 2
MaxAmount == 2
MaxRuns == 2

---------------------------------------------------------------------------
(* Python values *)

\* Optional[float]: None is the empty tuple, a set value v is <<v>>.
None == <<>>
Some(v) == <<v>>

\* Python truthiness of an Optional[float]: None and 0.0 are both falsy.
Truthy(o) == o # None /\ o[1] # 0

\* dict helpers: a dict is a function from keys (strings) to amounts.
EmptyDict == <<>>
DictSet(d, k, v) == [y \in (DOMAIN d) \cup {k} |-> IF y = k THEN v ELSE d[y]]

RECURSIVE SumOver(_, _)
SumOver(f, S) ==
    IF S = {} THEN 0
    ELSE LET k == CHOOSE y \in S : TRUE IN f[k] + SumOver(f, S \ {k})

\* sum(d.values())
SumValues(d) == SumOver(d, DOMAIN d)

\* sum(f(p) for p in seq), the terms given as a sequence
RECURSIVE SumSeq(_)
SumSeq(s) == IF s = <<>> THEN 0 ELSE Head(s) + SumSeq(Tail(s))

Abs(x) == IF x < 0 THEN -x ELSE x

RECURSIVE GCD(_, _)
GCD(a, b) == IF b = 0 THEN Abs(a) ELSE GCD(b, a % b)

\* The quotient n / d (d # 0) as a fraction in lowest terms with a positive
\* denominator; Zero is the int 0 the code returns in the degenerate cases.
Frac(n, d) ==
    LET g == GCD(n, d)
        s == IF d < 0 THEN -1 ELSE 1
    IN  <<(s * n) \div g, (s * d) \div g>>
Zero == <<0, 1>>

\* An integer amount in half units (the unit critical_threshold is kept in).
Halves(x) == 2 * x

---------------------------------------------------------------------------
(* Enumerations: members are named in upper case, .value is the lower-case *)
(* string.                                                                 *)

RiskLevel == {"LOW", "MODERATE", "HIGH", "CRITICAL"}

RiskLevelValue(level) ==
    CASE level = "LOW" -> "low"
      [] level = "MODERATE" -> "moderate"
      [] level = "HIGH" -> "high"
      [] level = "CRITICAL" -> "critical"

IncomeCategory == {"SALARY", "INVESTMENTS", "FREELANCE", "BUSINESS", "RENTAL", "OTHER"}

IncomeCategoryValue(member) ==
    CASE member = "SALARY" -> "salary"
      [] member = "INVESTMENTS" -> "investments"
      [] member = "FREELANCE" -> "freelance"
      [] member = "BUSINESS" -> "business"
      [] member = "RENTAL" -> "rental"
      [] member = "OTHER" -> "other"

---------------------------------------------------------------------------
(* Dataclasses *)

Transaction(month, amount) ==
    [month |-> month, amount |-> amount, description |-> "", category |-> None]

RecurringIncome(amount, category, start_month, end_month) ==
    [amount |-> amount, category |-> category,
     start_month |-> start_month, end_month |-> end_month]

CashFlowInput(cb, ri, me, ote, oti, pm, wt, ct, sg, egr, igr, eft) ==
    [current_balance |-> cb, recurring_income |-> ri, monthly_expenses |-> me,
     one_time_expenses |-> ote, one_time_income |-> oti, prediction_months |-> pm,
     warning_threshold |-> wt, critical_threshold |-> ct, savings_goal |-> sg,
     expense_growth_rate |-> egr, income_growth_rate |-> igr,
     emergency_fund_target |-> eft]

MonthlyPrediction(month, date, ob, income, expenses, cbal, nf, ib, eb, warnings, risk) ==
    [month |-> month, date |-> date, opening_balance |-> ob, income |-> income,
     expenses |-> expenses, closing_balance |-> cbal, net_flow |-> nf,
     income_breakdown |-> ib, expense_breakdown |-> eb, warnings |-> warnings,
     risk_level |-> risk]

---------------------------------------------------------------------------
(* The calendar: month_date.strftime("%b %Y") of start_date + 30 * month   *)
(* days, in years of 365 days.  A label is <<year, month of the year>>.    *)

DaysBefore == <<0, 31, 59, 90, 120, 151, 181, 212, 243, 273, 304, 334>>

MonthOfYear(dayOfYear) ==
    CHOOSE k \in 1..12 :
        /\ DaysBefore[k] <= dayOfYear
        /\ (k = 12 \/ dayOfYear < DaysBefore[k + 1])

DateLabel(start, month) ==
    LET day == start + 30 * month
    IN  <<day \div 365, MonthOfYear(day % 365)>>

---------------------------------------------------------------------------
(* Growth: (1 + rate) ** (month / 12) for the rates whose base 1 + rate is *)
(* the twelfth power of a root in GrowthRoots (0 ** y = 0 for y > 0, and   *)
(* x ** 0 = 1).                                                            *)

GrowthRoots == 0..2

GrowthRates == {b^12 - 1 : b \in GrowthRoots}

\* A faulty variant: the base of the power is off by one.
GrowthBroken(rate, month) ==
    LET root == CHOOSE b \in GrowthRoots : b^12 = 1 + rate
    IN  (root + 1)^month

Growth(rate, month) ==
    LET root == CHOOSE b \in GrowthRoots : b^12 = 1 + rate
    IN  root^month

---------------------------------------------------------------------------
(* CashFlowPredictor.__init__: the default of critical_threshold is        *)
(* written into the caller's own CashFlowInput object.  In half units,     *)
(* warning_threshold * 0.5 is the number warning_threshold.                *)

DefaultCriticalThreshold(cfg) == Some(cfg.warning_threshold)

InitInputs(cfg) ==
    IF cfg.critical_threshold = None
    THEN [cfg EXCEPT !.critical_threshold = DefaultCriticalThreshold(cfg)]
    ELSE cfg

---------------------------------------------------------------------------
(* calculate_monthly_expense *)

\* return total, expense_breakdown with total = sum(expense_breakdown.values())
Totalled(breakdown) == [total |-> SumValues(breakdown), breakdown |-> breakdown]

calculate_monthly_expense(cfg, month) ==
    Totalled([category \in DOMAIN cfg.monthly_expenses |->
                 cfg.monthly_expenses[category] * Growth(cfg.expense_growth_rate, month)])

---------------------------------------------------------------------------
(* calculate_monthly_income: the loop over recurring_income, in list       *)
(* order.  income.category.value raises AttributeError when the category   *)
(* is no IncomeCategory member; only an active source is looked at.        *)

\* A faulty variant: the end of the window is not looked at.
IsActiveNoEnd(income, month) == income.start_month <= month

IsActive(income, month) ==
    /\ income.start_month <= month
    /\ (income.end_month = None \/ month <= income.end_month[1])

RECURSIVE IncomeLoop(_, _, _, _)
IncomeLoop(cfg, month, i, income_breakdown) ==
    IF i > Len(cfg.recurring_income)
    THEN [error |-> "", breakdown |-> income_breakdown]
    ELSE LET income == cfg.recurring_income[i] IN
         IF ~IsActive(income, month)
         THEN IncomeLoop(cfg, month, i + 1, income_breakdown)
         ELSE IF income.category \notin IncomeCategory
         THEN [error |-> "AttributeError", breakdown |-> income_breakdown]
         ELSE LET adjusted_amount ==
                      income.amount * Growth(cfg.income_growth_rate, month)
                  category_name == IncomeCategoryValue(income.category)
              IN  IncomeLoop(cfg, month, i + 1,
                      IF category_name \in DOMAIN income_breakdown
                      THEN DictSet(income_breakdown, category_name,
                                   income_breakdown[category_name] + adjusted_amount)
                      ELSE DictSet(income_breakdown, category_name, adjusted_amount))

IncomeResult(r) ==
    [error |-> r.error, total |-> SumValues(r.breakdown), breakdown |-> r.breakdown]

calculate_monthly_income(cfg, month) == IncomeResult(IncomeLoop(cfg, month, 1, EmptyDict))

---------------------------------------------------------------------------
(* get_one_time_transactions *)

\* A faulty variant: a transaction counts in its month and in every later one.
RECURSIVE SumAmountsThrough(_, _)
SumAmountsThrough(transactions, month) ==
    IF transactions = <<>> THEN 0
    ELSE (IF Head(transactions).month <= month THEN Head(transactions).amount ELSE 0)
         + SumAmountsThrough(Tail(transactions), month)

RECURSIVE SumAmountsAt(_, _)
SumAmountsAt(transactions, month) ==
    IF transactions = <<>> THEN 0
    ELSE (IF Head(transactions).month = month THEN Head(transactions).amount ELSE 0)
         + SumAmountsAt(Tail(transactions), month)

get_one_time_transactions(cfg, month) ==
    [income |-> SumAmountsAt(cfg.one_time_income, month),
     expenses |-> SumAmountsAt(cfg.one_time_expenses, month)]

---------------------------------------------------------------------------
(* calculate_risk_level.  critical_threshold is in half units.             *)

\* A faulty variant: the warning threshold is compared with <=.
calculate_risk_level_inclusive(cfg, balance, net_flow, month) ==
    IF balance < 0 THEN "CRITICAL"
    ELSE IF Halves(balance) < cfg.critical_threshold[1] THEN "HIGH"
    ELSE IF balance <= cfg.warning_threshold THEN "MODERATE"
    ELSE IF net_flow < 0 /\ month > 0 THEN "MODERATE"
    ELSE "LOW"

\* A faulty variant: the warning threshold is tested before the critical one.
calculate_risk_level_swapped(cfg, balance, net_flow, month) ==
    IF balance < 0 THEN "CRITICAL"
    ELSE IF balance < cfg.warning_threshold THEN "MODERATE"
    ELSE IF Halves(balance) < cfg.critical_threshold[1] THEN "HIGH"
    ELSE IF net_flow < 0 /\ month > 0 THEN "MODERATE"
    ELSE "LOW"

calculate_risk_level(cfg, balance, net_flow, month) ==
    IF balance < 0 THEN "CRITICAL"
    ELSE IF Halves(balance) < cfg.critical_threshold[1] THEN "HIGH"
    ELSE IF balance < cfg.warning_threshold THEN "MODERATE"
    ELSE IF net_flow < 0 /\ month > 0 THEN "MODERATE"
    ELSE "LOW"

---------------------------------------------------------------------------
(* predict: the warnings of a month m >= 1.  A warning is its kind and the *)
(* amounts its text is formatted from.                                     *)

Warning(kind, amounts) == [kind |-> kind, amounts |-> amounts]

\* A faulty variant: the three tests are not chained, each adds its warning.
BalanceWarningsUnchained(cfg, balance) ==
    (IF balance < 0 THEN <<Warning("overdraft", <<Abs(balance)>>)>> ELSE <<>>)
    \o (IF Halves(balance) < cfg.critical_threshold[1]
        THEN <<Warning("critically_low", <<balance>>)>> ELSE <<>>)
    \o (IF balance < cfg.warning_threshold
        THEN <<Warning("below_threshold", <<balance, cfg.warning_threshold>>)>>
        ELSE <<>>)

BalanceWarnings(cfg, balance) ==
    IF balance < 0
    THEN <<Warning("overdraft", <<Abs(balance)>>)>>
    ELSE IF Halves(balance) < cfg.critical_threshold[1]
    THEN <<Warning("critically_low", <<balance>>)>>
    ELSE IF balance < cfg.warning_threshold
    THEN <<Warning("below_threshold", <<balance, cfg.warning_threshold>>)>>
    ELSE <<>>

SavingsWarnings(cfg, balance) ==
    IF Truthy(cfg.savings_goal) /\ balance < cfg.savings_goal[1]
    THEN <<Warning("savings_shortfall", <<cfg.savings_goal[1] - balance>>)>>
    ELSE <<>>

NetFlowWarnings(net_flow) ==
    IF net_flow < 0
    THEN <<Warning("spending_exceeds_income", <<Abs(net_flow)>>)>>
    ELSE <<>>

EmergencyFundWarnings(cfg, balance) ==
    IF Truthy(cfg.emergency_fund_target) /\ balance < cfg.emergency_fund_target[1]
    THEN <<Warning("below_emergency_fund", <<cfg.emergency_fund_target[1] - balance>>)>>
    ELSE <<>>

\* A faulty variant: the net-flow test comes last.
MonthWarningsNetFlowLast(cfg, balance, net_flow) ==
    BalanceWarnings(cfg, balance) \o SavingsWarnings(cfg, balance)
        \o EmergencyFundWarnings(cfg, balance) \o NetFlowWarnings(net_flow)

MonthWarnings(cfg, balance, net_flow) ==
    BalanceWarnings(cfg, balance) \o SavingsWarnings(cfg, balance)
        \o NetFlowWarnings(net_flow) \o EmergencyFundWarnings(cfg, balance)

---------------------------------------------------------------------------
(* predict: one iteration of the loop *)

\* A faulty variant of month 0: the one-time transactions of month 0 are applied.
MonthZeroFrom(cfg, start, balance, one_time) ==
    MonthlyPrediction(0, DateLabel(start, 0), balance, one_time.income,
        one_time.expenses, balance + one_time.income - one_time.expenses,
        one_time.income - one_time.expenses, EmptyDict, EmptyDict, <<>>,
        calculate_risk_level(cfg, balance + one_time.income - one_time.expenses, 0, 0))

MonthZeroWithFlows(cfg, start, balance) ==
    MonthZeroFrom(cfg, start, balance, get_one_time_transactions(cfg, 0))

\* month == 0: "Current month - no transactions"
MonthZero(cfg, start, balance) ==
    MonthlyPrediction(0, DateLabel(start, 0), balance, 0, 0, balance, 0,
        EmptyDict, EmptyDict, <<>>, calculate_risk_level(cfg, balance, 0, 0))

\* A faulty variant: the expenses are added.
NetFlowSum(total_income, total_expenses) == total_income + total_expenses

\* net_flow = total_income - total_expenses
NetFlow(total_income, total_expenses) == total_income - total_expenses

\* A faulty variant: the risk is computed before balance += net_flow.
MonthRiskStale(cfg, opening_balance, balance, net_flow, month) ==
    calculate_risk_level(cfg, opening_balance, net_flow, month)

\* risk_level = self.calculate_risk_level(balance, net_flow, month), after
\* balance += net_flow
MonthRisk(cfg, opening_balance, balance, net_flow, month) ==
    calculate_risk_level(cfg, balance, net_flow, month)

\* The snapshot of a month >= 1, from the month's totals and breakdowns:
\* balance += net_flow, the warnings, the risk level, the MonthlyPrediction.
MonthRecord(cfg, start, opening_balance, month, total_income, total_expenses, net_flow, balance, income_breakdown, expense_breakdown) ==
    MonthlyPrediction(month, DateLabel(start, month), opening_balance,
        total_income, total_expenses, balance, net_flow,
        income_breakdown, expense_breakdown,
        MonthWarnings(cfg, balance, net_flow),
        MonthRisk(cfg, opening_balance, balance, net_flow, month))

MonthBalance(cfg, start, opening_balance, month, total_income, total_expenses, net_flow, income_breakdown, expense_breakdown) ==
    MonthRecord(cfg, start, opening_balance, month, total_income, total_expenses,
                net_flow, opening_balance + net_flow, income_breakdown,
                expense_breakdown)

MonthTotals(cfg, start, opening_balance, month, total_income, total_expenses, income_breakdown, expense_breakdown) ==
    MonthBalance(cfg, start, opening_balance, month, total_income, total_expenses,
                 NetFlow(total_income, total_expenses), income_breakdown,
                 expense_breakdown)

\* The month from its recurring income inc, recurring expenses exp and
\* one-time sums one_time; the result is [error, prediction].
MonthFlows(cfg, start, opening_balance, month, inc, exp, one_time) ==
    IF inc.error # ""
    THEN [error |-> inc.error]
    ELSE [error |-> "",
          prediction |->
              MonthTotals(cfg, start, opening_balance, month,
                  inc.total + one_time.income,
                  exp.total + one_time.expenses,
                  IF one_time.income > 0
                  THEN DictSet(inc.breakdown, "one_time", one_time.income)
                  ELSE inc.breakdown,
                  IF one_time.expenses > 0
                  THEN DictSet(exp.breakdown, "one_time", one_time.expenses)
                  ELSE exp.breakdown)]

MonthNext(cfg, start, opening_balance, month) ==
    MonthFlows(cfg, start, opening_balance, month,
               calculate_monthly_income(cfg, month),
               calculate_monthly_expense(cfg, month),
               get_one_time_transactions(cfg, month))

---------------------------------------------------------------------------
(* predict: for month in range(prediction_months + 1), appending to        *)
(* self.predictions (which predict never clears).  An exception leaves the *)
(* snapshots appended so far in place.                                     *)

\* A faulty variant: range(prediction_months).
MonthCountShort(cfg) == cfg.prediction_months

MonthCount(cfg) == cfg.prediction_months + 1

RECURSIVE PredictLoop(_, _, _, _, _)

\* self.predictions.append(prediction), unless the month raised
Appended(cfg, start, preds, month, r) ==
    IF r.error # ""
    THEN [error |-> r.error, predictions |-> preds]
    ELSE PredictLoop(cfg, start, Append(preds, r.prediction),
                     r.prediction.closing_balance, month + 1)

PredictLoop(cfg, start, preds, balance, month) ==
    IF month >= MonthCount(cfg)
    THEN [error |-> "", predictions |-> preds]
    ELSE IF month = 0
    THEN PredictLoop(cfg, start, Append(preds, MonthZero(cfg, start, balance)),
                     balance, 1)
    ELSE Appended(cfg, start, preds, month, MonthNext(cfg, start, balance, month))

predict(cfg, start, preds) == PredictLoop(cfg, start, preds, cfg.current_balance, 0)

---------------------------------------------------------------------------
(* get_summary: the statistics of a non-empty snapshot list *)

Column(preds, field) == [i \in 1..Len(preds) |-> preds[i][field]]

\* for category, amount in pred.income_breakdown.items(): add into the totals
RECURSIVE AddItems(_, _, _)
AddItems(income_by_category, breakdown, keys) ==
    IF keys = {} THEN income_by_category
    ELSE LET category == CHOOSE k \in keys : TRUE
             amount == breakdown[category]
         IN  AddItems(
                 IF category \in DOMAIN income_by_category
                 THEN DictSet(income_by_category, category,
                              income_by_category[category] + amount)
                 ELSE DictSet(income_by_category, category, amount),
                 breakdown, keys \ {category})

RECURSIVE IncomeByCategoryLoop(_, _, _)
IncomeByCategoryLoop(preds, i, income_by_category) ==
    IF i > Len(preds) THEN income_by_category
    ELSE IncomeByCategoryLoop(preds, i + 1,
             AddItems(income_by_category, preds[i].income_breakdown,
                      DOMAIN preds[i].income_breakdown))

\* A faulty variant: each snapshot's breakdown replaces the totals.
IncomeByCategoryLast(preds) ==
    preds[Len(preds)].income_breakdown

IncomeByCategory(preds) == IncomeByCategoryLoop(preds, 1, EmptyDict)

\* risk_counts and the overall risk level
RiskCount(preds, level) ==
    Cardinality({i \in 1..Len(preds) : preds[i].risk_level = level})

\* A faulty variant: two high months are enough for an overall high.
OverallRiskFromTwo(preds) ==
    IF RiskCount(preds, "CRITICAL") > 0 THEN "CRITICAL"
    ELSE IF RiskCount(preds, "HIGH") >= 2 THEN "HIGH"
    ELSE IF 2 * RiskCount(preds, "MODERATE") > Len(preds) THEN "MODERATE"
    ELSE "LOW"

OverallRisk(preds) ==
    IF RiskCount(preds, "CRITICAL") > 0 THEN "CRITICAL"
    ELSE IF RiskCount(preds, "HIGH") > 2 THEN "HIGH"
    ELSE IF 2 * RiskCount(preds, "MODERATE") > Len(preds) THEN "MODERATE"
    ELSE "LOW"

\* min(balances), max(balances) and the first snapshot attaining each
Min(balances) ==
    CHOOSE v \in {balances[i] : i \in 1..Len(balances)} :
        \A i \in 1..Len(balances) : v <= balances[i]

Max(balances) ==
    CHOOSE v \in {balances[i] : i \in 1..Len(balances)} :
        \A i \in 1..Len(balances) : v >= balances[i]

\* A faulty variant: the last snapshot with the balance is taken.
LastWith(preds, balance) ==
    preds[CHOOSE i \in 1..Len(preds) :
              /\ preds[i].closing_balance = balance
              /\ \A j \in (i + 1)..Len(preds) : preds[j].closing_balance # balance]

FirstWith(preds, balance) ==
    preds[CHOOSE i \in 1..Len(preds) :
              /\ preds[i].closing_balance = balance
              /\ \A j \in 1..(i - 1) : preds[j].closing_balance # balance]

\* The k-th smallest of the balances (k from 1), and np.median
KthSmallest(balances, k) ==
    CHOOSE v \in {balances[i] : i \in 1..Len(balances)} :
        /\ Cardinality({i \in 1..Len(balances) : balances[i] < v}) < k
        /\ Cardinality({i \in 1..Len(balances) : balances[i] <= v}) >= k

Median(balances) ==
    LET n == Len(balances) IN
    IF n % 2 = 1
    THEN Frac(KthSmallest(balances, (n + 1) \div 2), 1)
    ELSE Frac(KthSmallest(balances, n \div 2) + KthSmallest(balances, n \div 2 + 1), 2)

\* np.std(balances) / np.mean(balances) if np.mean(balances) > 0 else 0, for
\* more than one balance.  The score is never negative and is represented by
\* its square, variance / mean^2 = (n * sum(x^2) - sum(x)^2) / sum(x)^2; the
\* quotient does not change when every balance is divided by their common
\* divisor, which keeps the squares small.
RECURSIVE GCDAll(_)
GCDAll(s) == IF s = <<>> THEN 0 ELSE GCD(Head(s), GCDAll(Tail(s)))

VolatilityOf(n, total, sx, sxx) ==
    IF n > 1
    THEN (IF total > 0 THEN Frac(n * sxx - sx * sx, sx * sx) ELSE Zero)
    ELSE Zero

Scaled(balances, g) == [i \in 1..Len(balances) |-> balances[i] \div g]

Squares(x) == [i \in 1..Len(x) |-> x[i] * x[i]]

Volatility(balances) ==
    VolatilityOf(Len(balances), SumSeq(balances),
                 SumSeq(Scaled(balances, GCDAll(balances))),
                 SumSeq(Squares(Scaled(balances, GCDAll(balances)))))

\* A faulty variant: without income the rate is minus the expenses.
SavingsRateOfExpenses(total_income, total_expenses) ==
    IF total_income > 0
    THEN Frac((total_income - total_expenses) * 100, total_income)
    ELSE Frac(0 - total_expenses, 1)

\* savings_rate and emergency_fund_months; avg_monthly_expense =
\* total_expenses / len(predictions) is positive exactly when total_expenses is
SavingsRate(total_income, total_expenses) ==
    IF total_income > 0
    THEN Frac((total_income - total_expenses) * 100, total_income)
    ELSE Zero

EmergencyFundMonths(final_balance, total_expenses, count) ==
    IF total_expenses > 0 THEN Frac(final_balance * count, total_expenses) ELSE Zero

BelowThreshold(cfg, preds) ==
    Cardinality({i \in 1..Len(preds) : preds[i].closing_balance < cfg.warning_threshold})

Negative(preds) ==
    Cardinality({i \in 1..Len(preds) : preds[i].closing_balance < 0})

\* A faulty variant: a final balance equal to the threshold counts as sustainable.
IsSustainableInclusive(cfg, final_balance) == final_balance >= cfg.warning_threshold

\* is_sustainable=final_prediction.closing_balance > self.inputs.warning_threshold
IsSustainable(cfg, final_balance) == final_balance > cfg.warning_threshold

SummaryOf(cfg, preds, final_balance, balances, total_income, total_expenses) ==
    [initial_balance |-> cfg.current_balance,
     final_balance |-> final_balance,
     total_change |-> final_balance - cfg.current_balance,
     total_income |-> total_income,
     total_expenses |-> total_expenses,
     total_net_flow |-> total_income - total_expenses,
     average_monthly_balance |-> Frac(SumSeq(balances), Len(balances)),
     median_monthly_balance |-> Median(balances),
     lowest_balance |-> Min(balances),
     lowest_balance_month |-> FirstWith(preds, Min(balances)).date,
     highest_balance |-> Max(balances),
     highest_balance_month |-> FirstWith(preds, Max(balances)).date,
     months_below_threshold |-> BelowThreshold(cfg, preds),
     months_negative |-> Negative(preds),
     is_sustainable |-> IsSustainable(cfg, final_balance),
     overall_risk_level |-> OverallRisk(preds),
     savings_rate |-> SavingsRate(total_income, total_expenses),
     emergency_fund_months |->
         EmergencyFundMonths(final_balance, total_expenses, Len(preds)),
     income_by_category |-> IncomeByCategory(preds),
     volatility_score |-> Volatility(balances)]

Summary(cfg, preds) ==
    SummaryOf(cfg, preds, preds[Len(preds)].closing_balance,
              Column(preds, "closing_balance"),
              SumSeq(Column(preds, "income")), SumSeq(Column(preds, "expenses")))

---------------------------------------------------------------------------
(* The public methods as calls on a predictor whose list is preds: the     *)
(* result is [error, predictions, value], predictions being the list the   *)
(* call leaves behind.                                                     *)

Raised(error, preds) == [error |-> error, predictions |-> preds]

Returned(value, preds) == [error |-> "", predictions |-> preds, value |-> value]

\* A faulty variant: the projection runs whether or not snapshots are stored.
EnsurePredictedAlways(cfg, start, preds) == predict(cfg, start, preds)

\* if not self.predictions: self.predict()

EnsurePredicted(cfg, start, preds) ==
    IF preds = <<>> THEN predict(cfg, start, preds) ELSE Raised("", preds)

\* get_summary after the lazy projection e; self.predictions[-1] raises
\* IndexError on a list that is still empty.
SummaryAfter(cfg, e) ==
    IF e.error # "" THEN e
    ELSE IF e.predictions = <<>> THEN Raised("IndexError", e.predictions)
    ELSE Returned(Summary(cfg, e.predictions), e.predictions)

get_summary(cfg, start, preds) == SummaryAfter(cfg, EnsurePredicted(cfg, start, preds))

ChartData(preds) ==
    [labels |-> Column(preds, "date"),
     balance |-> Column(preds, "closing_balance"),
     income |-> Column(preds, "income"),
     expenses |-> Column(preds, "expenses"),
     net_flow |-> Column(preds, "net_flow"),
     predicted_vs_actual |->
         [i \in 1..Len(preds) |->
             [date |-> preds[i].date, predicted |-> preds[i].closing_balance,
              actual |-> None]]]

ChartDataAfter(e) ==
    IF e.error # "" THEN e ELSE Returned(ChartData(e.predictions), e.predictions)

get_chart_data(cfg, start, preds) == ChartDataAfter(EnsurePredicted(cfg, start, preds))

\* The entries of the pie chart, one per category of income_by_category (the
\* order of the list is not modelled).
IncomePieChartData(summary) ==
    {[category |-> category,
      amount |-> summary.income_by_category[category],
      percentage |->
          IF summary.total_income > 0
          THEN Frac(summary.income_by_category[category] * 100, summary.total_income)
          ELSE Zero] : category \in DOMAIN summary.income_by_category}

PieAfter(s) ==
    IF s.error # "" THEN s ELSE Returned(IncomePieChartData(s.value), s.predictions)

get_income_pie_chart_data(cfg, start, preds) == PieAfter(get_summary(cfg, start, preds))

\* to_json: the data that is serialised; enum members become their values.
\* After the lazy projection e the list is empty only when the horizon is
\* negative, and then get_summary raises; otherwise get_summary,
\* get_chart_data and get_income_pie_chart_data find the list filled and
\* leave it as it is.
JsonPrediction(p) == [p EXCEPT !.risk_level = RiskLevelValue(p.risk_level)]

JsonData(summary, preds) ==
    [summary |->
         [summary EXCEPT !.overall_risk_level = RiskLevelValue(summary.overall_risk_level)],
     predictions |-> [k \in 1..Len(preds) |-> JsonPrediction(preds[k])],
     chart_data |-> ChartData(preds),
     income_chart_data |-> IncomePieChartData(summary)]

JsonFrom(s) ==
    IF s.error # "" THEN s ELSE Returned(JsonData(s.value, s.predictions), s.predictions)

JsonAfter(cfg, start, e) ==
    IF e.error # "" THEN e ELSE JsonFrom(get_summary(cfg, start, e.predictions))

to_json(cfg, start, preds) == JsonAfter(cfg, start, EnsurePredicted(cfg, start, preds))

---------------------------------------------------------------------------
(* The configs a behaviour starts from: families that each vary a few      *)
(* fields of CashFlowInput around a plain config, and the three example    *)
(* configs of the documentation.  critical_threshold is in half units.     *)

Balances == -1..MaxAmount
Horizons == -1..MaxHorizon
Thresholds == {-2} \cup 0..MaxAmount
CriticalThresholds == {None} \cup {Some(Halves(c)) : c \in 0..MaxAmount}
Goals == {None, Some(0), Some(MaxAmount)}

Salary(amount) == RecurringIncome(amount, "SALARY", 0, None)

\* balances against thresholds
ThresholdConfigs ==
    {CashFlowInput(cb, <<Salary(a)>>, [rent |-> e], <<>>, <<>>, pm, wt, ct,
                   None, 0, 0, None) :
        cb \in Balances, a \in {0, 1}, e \in {0, MaxAmount}, pm \in 1..MaxHorizon,
        wt \in Thresholds, ct \in CriticalThresholds}

\* savings goal and emergency fund target, with one-time transactions on
\* month 0
GoalConfigs ==
    {CashFlowInput(cb, <<Salary(1)>>, [rent |-> e], <<Transaction(0, 1)>>,
                   <<Transaction(0, 2)>>, MaxHorizon, 1, None, sg, 0, 0, eft) :
        cb \in Balances, e \in {0, MaxAmount}, sg \in Goals, eft \in Goals}

\* the horizon, with and without one-time transactions on month 0
HorizonConfigs ==
    {CashFlowInput(cb, <<Salary(1)>>, [rent |-> e], ot, ot, pm, 1, None,
                   None, 0, 0, None) :
        cb \in Balances, e \in {0, MaxAmount}, pm \in Horizons,
        ot \in {<<>>, <<Transaction(0, 1)>>}}

\* recurring income: windows, shared categories, a zero amount, a category
\* that is no IncomeCategory member, growth, one-time income
IncomeSources ==
    {Salary(1),
     RecurringIncome(2, "SALARY", 2, None),
     RecurringIncome(1, "FREELANCE", 1, Some(1)),
     RecurringIncome(0, "FREELANCE", 0, None),
     RecurringIncome(1, "FREELANCE", 2, Some(1)),
     RecurringIncome(1, "bonus", 2, None)}

IncomeLists ==
    {<<>>} \cup {<<s>> : s \in IncomeSources}
           \cup {<<Salary(1), s>> : s \in IncomeSources}

OneTimeLists ==
    {<<>>,
     <<Transaction(1, 1)>>,
     <<Transaction(1, 1), Transaction(1, 2)>>,
     <<Transaction(0, 1), Transaction(2, 1)>>,
     <<Transaction(MaxHorizon + 1, 1)>>}

IncomeConfigs ==
    {CashFlowInput(1, ri, [rent |-> 1], <<>>, oti, pm, 1, None, None, 0, igr, None) :
        ri \in IncomeLists, oti \in OneTimeLists, pm \in 1..MaxHorizon,
        igr \in GrowthRates}

\* recurring expenses: zero amounts, a category named "one_time", growth,
\* one-time expenses
ExpenseMaps ==
    {EmptyDict,
     [rent |-> 1],
     [rent |-> 0],
     [rent |-> 1, food |-> 2],
     [one_time |-> 1],
     [rent |-> 1, one_time |-> 2]}

ExpenseConfigs ==
    {CashFlowInput(1, <<Salary(1)>>, me, ote, <<>>, pm, 1, None, None, egr, 0, None) :
        me \in ExpenseMaps, ote \in OneTimeLists, pm \in 1..MaxHorizon,
        egr \in GrowthRates}

\* current_balance=5000, recurring_income=[{3000, salary}],
\* monthly_expenses={rent:1200}, horizon=1, warning_threshold=2000
ExampleLow ==
    CashFlowInput(5000, <<Salary(3000)>>, [rent |-> 1200], <<>>, <<>>, 1, 2000,
                  None, None, 0, 0, None)

\* the same with monthly_expenses={rent:6000}
ExampleBoundary ==
    CashFlowInput(5000, <<Salary(3000)>>, [rent |-> 6000], <<>>, <<>>, 1, 2000,
                  None, None, 0, 0, None)

\* a one-time expense of 10000 at month 2 on a balance of 1000, no other flow
ExampleOverdraft ==
    CashFlowInput(1000, <<>>, EmptyDict, <<Transaction(2, 10000)>>, <<>>, 2, 2000,
                  None, None, 0, 0, None)

Configs ==
    ThresholdConfigs \cup GoalConfigs \cup HorizonConfigs \cup IncomeConfigs
        \cup ExpenseConfigs \cup {ExampleLow, ExampleBoundary, ExampleOverdraft}

\* 1 January and 15 February: from 1 January, months 0 and 1 (30 days later)
\* carry the same label.
Clock == {0, 45}

---------------------------------------------------------------------------
(* The state machine *)

NoReturn == [kind |-> "none"]

\* what a call leaves in ret: the exception raised, or the value returned
Outcome(kind, r) ==
    IF r.error # "" THEN [kind |-> "error", value |-> r.error]
    ELSE [kind |-> kind, value |-> r.value]

\* the effect of a call with result r on the predictor and on ret
Call(kind, r) ==
    /\ predictions' = r.predictions
    /\ ret' = Outcome(kind, r)

\* predict returns self.predictions, the list itself
PredictResult(r) ==
    IF r.error # "" THEN r ELSE Returned(r.predictions, r.predictions)

\* The projection runs stored in the list: one month-0 snapshot each.
Runs(preds) == Cardinality({i \in 1..Len(preds) : preds[i].month = 0})

\* The threads that may call the predictor at the same time, and a thread
\* that has not called yet
Threads == {1, 2}

Idle == [pc |-> "idle", op |-> "", balance |-> 0, month |-> 0, result |-> NoReturn]

Init ==
    /\ pc = "new"
    /\ inputs \in Configs
    /\ now \in Clock
    /\ predictions = <<>>
    /\ lastOp = ""
    /\ ret = NoReturn
    /\ summaryStreak = 0
    /\ threads = [t \in Threads |-> Idle]

\* predictor = CashFlowPredictor(inputs)
Construct ==
    /\ pc = "new"
    /\ pc' = "ready"
    /\ inputs' = InitInputs(inputs)
    /\ predictions' = <<>>
    /\ lastOp' = "__init__"
    /\ ret' = NoReturn
    /\ UNCHANGED <<now, summaryStreak, threads>>

\* predictor.predict(); the list returned is self.predictions itself
Predict ==
    /\ pc = "ready"
    /\ Runs(predictions) < MaxRuns
    /\ Call("predictions", PredictResult(predict(inputs, now, predictions)))
    /\ lastOp' = "predict"
    /\ summaryStreak' = 0
    /\ UNCHANGED <<pc, inputs, now, threads>>

\* predictor.get_summary()
GetSummary ==
    /\ pc = "ready"
    /\ Call("summary", get_summary(inputs, now, predictions))
    /\ lastOp' = "get_summary"
    /\ summaryStreak' = IF summaryStreak < 2 THEN summaryStreak + 1 ELSE 2
    /\ UNCHANGED <<pc, inputs, now, threads>>

\* predictor.get_chart_data()
GetChartData ==
    /\ pc = "ready"
    /\ Call("chart_data", get_chart_data(inputs, now, predictions))
    /\ lastOp' = "get_chart_data"
    /\ summaryStreak' = 0
    /\ UNCHANGED <<pc, inputs, now, threads>>

\* predictor.get_income_pie_chart_data()
GetIncomePieChartData ==
    /\ pc = "ready"
    /\ Call("income_pie_chart_data", get_income_pie_chart_data(inputs, now, predictions))
    /\ lastOp' = "get_income_pie_chart_data"
    /\ summaryStreak' = 0
    /\ UNCHANGED <<pc, inputs, now, threads>>

\* predictor.to_json()
ToJson ==
    /\ pc = "ready"
    /\ Call("json", to_json(inputs, now, predictions))
    /\ lastOp' = "to_json"
    /\ summaryStreak' = 0
    /\ UNCHANGED <<pc, inputs, now, threads>>

Next ==
    \/ Construct
    \/ Predict
    \/ GetSummary
    \/ GetChartData
    \/ GetIncomePieChartData
    \/ ToJson

Spec == Init /\ [][Next]_vars

---------------------------------------------------------------------------
(* calculate_risk_level on its own: the method applied to arguments drawn  *)
(* from small sets, on predictors constructed from the threshold configs.  *)

RiskBalances == -1..(MaxAmount + 1)
RiskNetFlows == {-1, 0, 1}
RiskMonths == {0, 1}

CalculateRiskLevel ==
    /\ pc = "ready"
    /\ \E balance \in RiskBalances, net_flow \in RiskNetFlows, month \in RiskMonths :
        ret' = [kind |-> "risk_level",
                value |-> calculate_risk_level(inputs, balance, net_flow, month),
                args |-> [balance |-> balance, net_flow |-> net_flow, month |-> month]]
    /\ lastOp' = "calculate_risk_level"
    /\ summaryStreak' = 0
    /\ UNCHANGED <<pc, inputs, now, predictions, threads>>

InitRisk == Init /\ inputs \in ThresholdConfigs

NextRisk ==
    \/ Construct
    \/ CalculateRiskLevel

SpecRisk == InitRisk /\ [][NextRisk]_vars

---------------------------------------------------------------------------
(* Two threads calling get_summary or get_chart_data on the same predictor *)
(* without coordination.  A thread can be preempted between any two        *)
(* statements; the steps modelled are the test `if not self.predictions`,  *)
(* each iteration of the loop of predict (which ends with the append to    *)
(* the shared list) and the rest of the method, which reads the list.      *)

ThreadOps == {"get_summary", "get_chart_data"}

\* the thread enters the method
ThreadCall(t) ==
    /\ pc = "ready"
    /\ threads[t].pc = "idle"
    /\ \E op \in ThreadOps :
           threads' = [threads EXCEPT ![t].pc = "check", ![t].op = op]
    /\ UNCHANGED <<pc, inputs, now, predictions, lastOp, ret, summaryStreak>>

\* if not self.predictions: self.predict() is entered, where
\* balance = self.inputs.current_balance
ThreadCheck(t) ==
    /\ threads[t].pc = "check"
    /\ threads' = IF predictions = <<>>
                  THEN [threads EXCEPT ![t].pc = "loop",
                                       ![t].balance = inputs.current_balance,
                                       ![t].month = 0]
                  ELSE [threads EXCEPT ![t].pc = "report"]
    /\ UNCHANGED <<pc, inputs, now, predictions, lastOp, ret, summaryStreak>>

\* the snapshot of the thread's month, as [error, prediction]
ThreadSnapshot(t) ==
    IF threads[t].month = 0
    THEN [error |-> "", prediction |-> MonthZero(inputs, now, threads[t].balance)]
    ELSE MonthNext(inputs, now, threads[t].balance, threads[t].month)

\* self.predictions.append(prediction), or the exception of the month
ThreadAppend(t, r) ==
    IF r.error # ""
    THEN /\ threads' = [threads EXCEPT ![t].pc = "done",
                            ![t].result = [kind |-> "error", value |-> r.error]]
         /\ UNCHANGED predictions
    ELSE /\ predictions' = Append(predictions, r.prediction)
         /\ threads' = [threads EXCEPT ![t].balance = r.prediction.closing_balance,
                                       ![t].month = @ + 1]

\* one iteration of for month in range(prediction_months + 1), or its end
ThreadMonth(t) ==
    /\ threads[t].pc = "loop"
    /\ IF threads[t].month >= MonthCount(inputs)
       THEN /\ threads' = [threads EXCEPT ![t].pc = "report"]
            /\ UNCHANGED predictions
       ELSE ThreadAppend(t, ThreadSnapshot(t))
    /\ UNCHANGED <<pc, inputs, now, lastOp, ret, summaryStreak>>

\* what the method computes from the list once the lazy projection is over
ThreadResult(op) ==
    IF op = "get_summary"
    THEN Outcome("summary", SummaryAfter(inputs, Raised("", predictions)))
    ELSE Outcome("chart_data", ChartDataAfter(Raised("", predictions)))

\* the rest of the method, and its return
ThreadReturn(t) ==
    /\ threads[t].pc = "report"
    /\ threads' = [threads EXCEPT ![t].pc = "done",
                                  ![t].result = ThreadResult(threads[t].op)]
    /\ UNCHANGED <<pc, inputs, now, predictions, lastOp, ret, summaryStreak>>

InitThreads == Init /\ inputs \in HorizonConfigs

NextThreads ==
    \/ Construct
    \/ \E t \in Threads : ThreadCall(t)
    \/ \E t \in Threads : ThreadCheck(t)
    \/ \E t \in Threads : ThreadMonth(t)
    \/ \E t \in Threads : ThreadReturn(t)

SpecThreads == InitThreads /\ [][NextThreads]_vars

---------------------------------------------------------------------------
(* Properties *)

\* The snapshots of the list, and those of a month >= 1
Snapshots == {predictions[i] : i \in 1..Len(predictions)}
LaterSnapshots == {p \in Snapshots : p.month >= 1}

\* seq holds exactly the months 0..horizon, in ascending order
IsProjection(seq, horizon) ==
    /\ Len(seq) = horizon + 1
    /\ \A i \in 1..Len(seq) : seq[i].month = i - 1

\* every recurring income of the config has an IncomeCategory member as category
WellTyped(cfg) ==
    \A i \in 1..Len(cfg.recurring_income) :
        cfg.recurring_income[i].category \in IncomeCategory

\* C1: predict() called on a freshly constructed predictor whose config has
\* prediction_months = H >= 0 returns exactly H + 1 snapshots, with the months
\* 0, 1, ..., H in ascending order (one month-0 snapshot when H = 0).
C1_FreshPredictReturnsHorizonPlusOne ==
    [][(/\ Predict
        /\ lastOp = "__init__"
        /\ inputs.prediction_months >= 0
        /\ ret'.kind = "predictions")
       => IsProjection(ret'.value, inputs.prediction_months)]_vars

C1_Witness ==
    /\ lastOp = "predict"
    /\ ret.kind = "predictions"
    /\ inputs.prediction_months = MaxHorizon
    /\ Len(ret.value) = MaxHorizon + 1
    /\ ret.value[Len(ret.value)].month = MaxHorizon

\* C2: in the snapshot list, every snapshot of a month m >= 1 has
\* closing_balance = opening_balance + net_flow and net_flow = income -
\* expenses, and its opening_balance is the closing_balance of the snapshot
\* before it, which is that of month m - 1.
C2_BalanceChain ==
    \A i \in 1..Len(predictions) :
        predictions[i].month >= 1 =>
            /\ predictions[i].closing_balance =
                   predictions[i].opening_balance + predictions[i].net_flow
            /\ predictions[i].net_flow = predictions[i].income - predictions[i].expenses
            /\ i > 1
            /\ predictions[i - 1].month = predictions[i].month - 1
            /\ predictions[i].opening_balance = predictions[i - 1].closing_balance

C2_Witness ==
    \E p \in LaterSnapshots :
        /\ p.month >= 2
        /\ p.income > 0
        /\ p.expenses > 0
        /\ p.income # p.expenses

\* C3: every month-0 snapshot has opening_balance = closing_balance =
\* current_balance, income = expenses = net_flow = 0, empty breakdowns, no
\* warnings, and the risk level of (current_balance, 0, 0), whatever the
\* config: a negative balance, savings and emergency fund targets, one-time
\* transactions on month 0.
C3_MonthZero ==
    \A p \in Snapshots :
        p.month = 0 =>
            /\ p.opening_balance = inputs.current_balance
            /\ p.closing_balance = inputs.current_balance
            /\ p.income = 0
            /\ p.expenses = 0
            /\ p.net_flow = 0
            /\ DOMAIN p.income_breakdown = {}
            /\ DOMAIN p.expense_breakdown = {}
            /\ p.warnings = <<>>
            /\ p.risk_level = calculate_risk_level(inputs, inputs.current_balance, 0, 0)

C3_Witness ==
    /\ predictions # <<>>
    /\ predictions[1].month = 0
    /\ predictions[1].risk_level = "CRITICAL"
    /\ inputs.current_balance < 0
    /\ Truthy(inputs.savings_goal)
    /\ Truthy(inputs.emergency_fund_target)
    /\ \E i \in 1..Len(inputs.one_time_expenses) : inputs.one_time_expenses[i].month = 0
    /\ \E i \in 1..Len(inputs.one_time_income) : inputs.one_time_income[i].month = 0

\* C4: calculate_risk_level(balance, net_flow, month) returns the first level
\* that matches, in this order: critical when balance < 0; high when balance
\* < critical_threshold; moderate when balance < warning_threshold; moderate
\* when net_flow < 0 and month > 0; low otherwise -- for every pair of
\* thresholds, critical_threshold > warning_threshold included.  The level
\* returned is always one of the four.
C4_RiskPriority ==
    lastOp = "calculate_risk_level" =>
        LET b == ret.args.balance
            negative == b < 0
            underCritical == Halves(b) < inputs.critical_threshold[1]
            underWarning == b < inputs.warning_threshold
            falling == ret.args.net_flow < 0 /\ ret.args.month > 0
        IN  /\ ret.value \in RiskLevel
            /\ negative => ret.value = "CRITICAL"
            /\ (~negative /\ underCritical) => ret.value = "HIGH"
            /\ (~negative /\ ~underCritical /\ underWarning) => ret.value = "MODERATE"
            /\ (~negative /\ ~underCritical /\ ~underWarning /\ falling)
                   => ret.value = "MODERATE"
            /\ (~negative /\ ~underCritical /\ ~underWarning /\ ~falling)
                   => ret.value = "LOW"

C4_Witness ==
    /\ lastOp = "calculate_risk_level"
    /\ inputs.critical_threshold[1] > Halves(inputs.warning_threshold)
    /\ ret.args.balance >= inputs.warning_threshold
    /\ ret.args.balance >= 0
    /\ ret.value = "HIGH"

\* C5: for every snapshot of the list, month 0 included, calculate_risk_level
\* applied to the snapshot's own closing_balance, net_flow and month gives the
\* risk_level stored in it.
C5_RiskReproducible ==
    \A p \in Snapshots :
        p.risk_level = calculate_risk_level(inputs, p.closing_balance, p.net_flow, p.month)

C5_Witness ==
    \E p \in LaterSnapshots :
        /\ p.risk_level = "HIGH"
        /\ calculate_risk_level(inputs, p.opening_balance, p.net_flow, p.month) # "HIGH"

\* C6: the threshold comparisons are strict.  A snapshot of a month >= 1 whose
\* closing balance equals warning_threshold (and is >= 0 and >=
\* critical_threshold) has no balance warning; its risk is low when net_flow
\* >= 0, and moderate when net_flow < 0, and then it has the
\* spending-exceeds-income warning.  The documented instance (balance 5000,
\* salary 3000, rent 6000, horizon 1, warning_threshold 2000) gives month 1
\* net_flow -3000, closing balance 2000, risk moderate.
HasWarning(p, kind) == \E i \in 1..Len(p.warnings) : p.warnings[i].kind = kind

C6_StrictThresholds ==
    /\ \A p \in LaterSnapshots :
        (/\ p.closing_balance = inputs.warning_threshold
         /\ p.closing_balance >= 0
         /\ Halves(p.closing_balance) >= inputs.critical_threshold[1])
        => /\ ~HasWarning(p, "below_threshold")
           /\ ~HasWarning(p, "critically_low")
           /\ ~HasWarning(p, "overdraft")
           /\ p.net_flow >= 0 => p.risk_level = "LOW"
           /\ p.net_flow < 0 =>
                  (p.risk_level = "MODERATE" /\ HasWarning(p, "spending_exceeds_income"))
    /\ (pc = "ready" /\ inputs = InitInputs(ExampleBoundary)) =>
           \A p \in LaterSnapshots :
               /\ p.month = 1
               /\ p.net_flow = -3000
               /\ p.closing_balance = 2000
               /\ p.risk_level = "MODERATE"
               /\ p.warnings = <<Warning("spending_exceeds_income", <<3000>>)>>

C6_Witness ==
    /\ pc = "ready"
    /\ inputs = InitInputs(ExampleBoundary)
    /\ \E p \in LaterSnapshots :
        p.closing_balance = inputs.warning_threshold /\ p.risk_level = "MODERATE"

\* The sources of the config whose window holds the month, and the sum of
\* the base amounts of those among them that S holds
ActiveSources(cfg, month) ==
    {i \in 1..Len(cfg.recurring_income) :
        /\ cfg.recurring_income[i].start_month <= month
        /\ \/ cfg.recurring_income[i].end_month = None
           \/ month <= cfg.recurring_income[i].end_month[1]}

BaseAmount(cfg, S) == SumOver([i \in S |-> cfg.recurring_income[i].amount], S)

BreakdownKeys == UNION {DOMAIN p.income_breakdown : p \in Snapshots}

HavingKey(key) ==
    {i \in 1..Len(predictions) : key \in DOMAIN predictions[i].income_breakdown}

C8_IncomeByCategoryTotals ==
    (lastOp = "get_summary" /\ ret.kind = "summary") =>
        /\ DOMAIN ret.value.income_by_category = BreakdownKeys
        /\ \A key \in BreakdownKeys :
               ret.value.income_by_category[key] =
                   SumOver([i \in HavingKey(key) |-> predictions[i].income_breakdown[key]],
                           HavingKey(key))

C8_Witness ==
    /\ lastOp = "get_summary"
    /\ ret.kind = "summary"
    /\ "one_time" \in DOMAIN ret.value.income_by_category
    /\ "salary" \in DOMAIN ret.value.income_by_category
    /\ "freelance" \in DOMAIN ret.value.income_by_category
    /\ Cardinality(HavingKey("salary")) >= 2

\* C9: get_summary called right after a get_summary that returned a summary
\* returns an equal summary, and a get_summary called on a predictor that
\* holds snapshots leaves the snapshot list, and so every snapshot, as it was.
C9_SummaryIdempotent ==
    [][GetSummary =>
        /\ predictions # <<>> => predictions' = predictions
        /\ (lastOp = "get_summary" /\ ret.kind = "summary") =>
               (ret'.kind = "summary" /\ ret'.value = ret.value)]_vars

C9_Witness ==
    /\ summaryStreak = 2
    /\ ret.kind = "summary"
    /\ Len(predictions) > 1

\* C10: once a projection has run on a predictor whose well-typed config has
\* horizon H >= 0, the snapshot list holds each month 0..H exactly once, in
\* ascending order, after any further calls.
C10_EachMonthOnce ==
    (/\ pc = "ready"
     /\ WellTyped(inputs)
     /\ inputs.prediction_months >= 0
     /\ predictions # <<>>)
    => IsProjection(predictions, inputs.prediction_months)

\* C11: get_summary called on a predictor whose snapshot list is empty fails
\* with an InvalidInput error and returns no summary.
C11_SummaryOnEmptyFails ==
    [][(GetSummary /\ predictions = <<>>)
       => (ret'.kind = "error" /\ ret'.value = "InvalidInput")]_vars

\* C12: a config with prediction_months < 0 is rejected with an InvalidInput
\* error; predict never returns normally for it.
C12_NegativeHorizonRejected ==
    (lastOp = "predict" /\ inputs.prediction_months < 0)
    => (ret.kind = "error" /\ ret.value = "InvalidInput")

\* C13: no snapshot of a projection run that failed remains in the list:
\* every stored snapshot of a month below the horizon is followed by the
\* snapshot of the next month, so no run of the list is truncated.
C13_NoPartialResults ==
    \A i \in 1..Len(predictions) :
        predictions[i].month < inputs.prediction_months =>
            /\ i < Len(predictions)
            /\ predictions[i + 1].month = predictions[i].month + 1

\* C14: no step changes a field of the caller's CashFlowInput object,
\* critical_threshold included when the caller left it unset.
C14_ConfigReadOnly == [][inputs' = inputs]_vars

\* The number of stored snapshots with the given risk level
CountRisk(level) == Cardinality({i \in 1..Len(predictions) : predictions[i].risk_level = level})

\* C16: the overall_risk_level of a summary is critical if some snapshot is
\* critical; otherwise high if more than 2 snapshots are high; otherwise
\* moderate if more than half of the snapshots (month 0 counted) are moderate;
\* otherwise low.  With 1 or 2 high snapshots and no critical one the overall
\* level is never high.
C16_OverallRisk ==
    ret.kind = "summary" =>
        /\ ret.value.overall_risk_level =
               IF \E p \in Snapshots : p.risk_level = "CRITICAL" THEN "CRITICAL"
               ELSE IF CountRisk("HIGH") > 2 THEN "HIGH"
               ELSE IF 2 * CountRisk("MODERATE") > Len(predictions) THEN "MODERATE"
               ELSE "LOW"
        /\ (CountRisk("HIGH") \in {1, 2} /\ CountRisk("CRITICAL") = 0)
               => ret.value.overall_risk_level # "HIGH"

C16_Witness ==
    /\ ret.kind = "summary"
    /\ CountRisk("HIGH") = 2
    /\ CountRisk("CRITICAL") = 0
    /\ ret.value.overall_risk_level \in {"MODERATE", "LOW"}

\* The closing balances of the stored snapshots, and among the snapshots
\* with a given closing balance the one with the smallest month index
ClosingBalances == {p.closing_balance : p \in Snapshots}

EarliestAt(balance) ==
    CHOOSE p \in Snapshots :
        /\ p.closing_balance = balance
        /\ \A q \in Snapshots : q.closing_balance = balance => p.month <= q.month

\* C17: lowest_balance and highest_balance of a summary are the minimum and
\* the maximum closing_balance over the snapshots, and lowest_balance_month
\* and highest_balance_month are the labels of the snapshot with the smallest
\* month index that attains each of them.
C17_Extrema ==
    ret.kind = "summary" =>
        /\ ret.value.lowest_balance \in ClosingBalances
        /\ ret.value.highest_balance \in ClosingBalances
        /\ \A b \in ClosingBalances :
               ret.value.lowest_balance <= b /\ b <= ret.value.highest_balance
        /\ ret.value.lowest_balance_month = EarliestAt(ret.value.lowest_balance).date
        /\ ret.value.highest_balance_month = EarliestAt(ret.value.highest_balance).date

C17_Witness ==
    /\ ret.kind = "summary"
    /\ ret.value.lowest_balance < ret.value.highest_balance
    /\ \E p, q \in Snapshots :
           /\ p.closing_balance = ret.value.lowest_balance
           /\ q.closing_balance = ret.value.lowest_balance
           /\ p.month < q.month
           /\ p.date # q.date
           /\ ret.value.lowest_balance_month = p.date

\* C18: is_sustainable of a summary is true exactly when the closing_balance
\* of the last snapshot is strictly greater than warning_threshold; a final
\* balance equal to warning_threshold gives is_sustainable = FALSE.
C18_Sustainable ==
    ret.kind = "summary" =>
        /\ ret.value.is_sustainable =
               (predictions[Len(predictions)].closing_balance > inputs.warning_threshold)
        /\ predictions[Len(predictions)].closing_balance = inputs.warning_threshold
               => ret.value.is_sustainable = FALSE

C18_Witness ==
    /\ ret.kind = "summary"
    /\ Len(predictions) > 1
    /\ predictions[Len(predictions)].closing_balance = inputs.warning_threshold
    /\ predictions[1].closing_balance > inputs.warning_threshold
    /\ ret.value.is_sustainable = FALSE

\* The totals of the stored snapshots
TotalIncome == SumSeq(Column(predictions, "income"))
TotalExpenses == SumSeq(Column(predictions, "expenses"))
TotalBalance == SumSeq(Column(predictions, "closing_balance"))
FinalBalance == predictions[Len(predictions)].closing_balance

\* C19: for a well-typed config with horizon >= 0 get_summary returns a
\* summary, in which savings_rate is 0 when total_income is 0 and
\* (total_income - total_expenses) / total_income * 100 otherwise,
\* emergency_fund_months is 0 when the average monthly expense
\* (total_expenses / number of snapshots) is 0 and final closing_balance /
\* average monthly expense otherwise, and volatility_score is 0 when the mean
\* closing balance is 0.
C19_DegenerateDivisions ==
    /\ (lastOp = "get_summary" /\ WellTyped(inputs) /\ inputs.prediction_months >= 0)
           => ret.kind = "summary"
    /\ ret.kind = "summary" =>
           /\ ret.value.savings_rate =
                  IF TotalIncome = 0 THEN Zero
                  ELSE Frac((TotalIncome - TotalExpenses) * 100, TotalIncome)
           /\ ret.value.emergency_fund_months =
                  IF TotalExpenses = 0 THEN Zero
                  ELSE Frac(FinalBalance * Len(predictions), TotalExpenses)
           /\ TotalBalance = 0 => ret.value.volatility_score = Zero

C19_Witness ==
    /\ ret.kind = "summary"
    /\ Len(predictions) > 1
    /\ TotalIncome = 0
    /\ TotalExpenses > 0
    /\ ret.value.savings_rate = Zero
    /\ ret.value.emergency_fund_months # Zero

\* The sum of the squares of the closing balances
TotalSquares == SumSeq(Squares(Column(predictions, "closing_balance")))

\* C20: volatility_score of a summary is (population standard deviation of
\* the closing balances) / (mean closing balance) whenever there are at least
\* 2 snapshots and the mean is not 0, a negative mean included, and 0 only
\* when the mean is 0 or there are fewer than 2 snapshots; with non-constant
\* balances and a non-zero mean it is not 0.  The score is compared through
\* its square, variance / mean^2.
C20_VolatilityStdOverMean ==
    ret.kind = "summary" =>
        /\ ret.value.volatility_score =
               IF Len(predictions) >= 2 /\ TotalBalance # 0
               THEN Frac(Len(predictions) * TotalSquares - TotalBalance * TotalBalance,
                         TotalBalance * TotalBalance)
               ELSE Zero
        /\ (/\ Len(predictions) >= 2
            /\ TotalBalance # 0
            /\ Cardinality(ClosingBalances) > 1) => ret.value.volatility_score # Zero

\* What a single call of the method on the predictor, with no other caller,
\* returns
SequentialResult(op) ==
    IF op = "get_summary"
    THEN Outcome("summary", get_summary(inputs, now, <<>>))
    ELSE Outcome("chart_data", get_chart_data(inputs, now, <<>>))

\* C15: when two threads call get_summary or get_chart_data on the same
\* predictor at the same time, in every interleaving each caller obtains the
\* result of a single sequential call, and once the calls are over the
\* snapshot list holds exactly the months 0..horizon in order.
C15_ConcurrentCallsSafe ==
    inputs.prediction_months >= 0 =>
        /\ \A t \in Threads :
               threads[t].pc = "done" =>
                   threads[t].result = SequentialResult(threads[t].op)
        /\ (\A t \in Threads : threads[t].pc = "done")
               => IsProjection(predictions, inputs.prediction_months)

\* The kinds of the balance-tier warnings
TierKinds == {"overdraft", "critically_low", "below_threshold"}

\* C21: every snapshot of a month >= 1 carries at most one balance-tier
\* warning, chosen by first match: overdraft iff closing < 0; otherwise
\* critically low iff closing < critical_threshold; otherwise below threshold
\* iff closing < warning_threshold.  The overdraft warning is there exactly
\* when the risk is critical, the critically-low one exactly when it is high,
\* the below-threshold one exactly when it is moderate with the closing
\* balance under warning_threshold.
C21_OneTierWarning ==
    pc = "ready" =>
        \A p \in LaterSnapshots :
            /\ Cardinality({i \in 1..Len(p.warnings) : p.warnings[i].kind \in TierKinds}) <= 1
            /\ HasWarning(p, "overdraft") <=> p.closing_balance < 0
            /\ HasWarning(p, "critically_low") <=>
                   /\ p.closing_balance >= 0
                   /\ Halves(p.closing_balance) < inputs.critical_threshold[1]
            /\ HasWarning(p, "below_threshold") <=>
                   /\ p.closing_balance >= 0
                   /\ Halves(p.closing_balance) >= inputs.critical_threshold[1]
                   /\ p.closing_balance < inputs.warning_threshold
            /\ HasWarning(p, "overdraft") <=> p.risk_level = "CRITICAL"
            /\ HasWarning(p, "critically_low") <=> p.risk_level = "HIGH"
            /\ HasWarning(p, "below_threshold") <=>
                   (p.risk_level = "MODERATE" /\ p.closing_balance < inputs.warning_threshold)

C21_Witness ==
    /\ pc = "ready"
    /\ \E p \in LaterSnapshots :
           /\ HasWarning(p, "critically_low")
           /\ p.closing_balance < inputs.warning_threshold
           /\ ~HasWarning(p, "below_threshold")
           /\ p.risk_level = "HIGH"

\* C22: a snapshot of a month >= 1 carries the savings-shortfall warning iff
\* savings_goal is set (to any value, 0 included) and the closing balance is
\* below it, and the emergency-fund warning iff emergency_fund_target is set
\* (0 included) and the closing balance is below it.
C22_GoalWarnings ==
    \A p \in LaterSnapshots :
        /\ HasWarning(p, "savings_shortfall") <=>
               /\ inputs.savings_goal # None
               /\ p.closing_balance < inputs.savings_goal[1]
        /\ HasWarning(p, "below_emergency_fund") <=>
               /\ inputs.emergency_fund_target # None
               /\ p.closing_balance < inputs.emergency_fund_target[1]

\* The place of a kind of warning in the order of the warning list
WarningRank(kind) ==
    IF kind \in TierKinds THEN 1
    ELSE IF kind = "savings_shortfall" THEN 2
    ELSE IF kind = "spending_exceeds_income" THEN 3
    ELSE 4

\* C23: a snapshot of a month >= 1 carries the spending-exceeds-income warning
\* iff its net_flow is negative, whatever its balance and its other warnings,
\* and its warnings are in the order balance tier, savings shortfall,
\* spending exceeds income, emergency-fund shortfall, each at most once.
C23_NetFlowWarningAndOrder ==
    \A p \in LaterSnapshots :
        /\ HasWarning(p, "spending_exceeds_income") <=> p.net_flow < 0
        /\ \A i, j \in 1..Len(p.warnings) :
               i < j => WarningRank(p.warnings[i].kind) < WarningRank(p.warnings[j].kind)

C23_Witness ==
    \E p \in LaterSnapshots :
        /\ Len(p.warnings) = 4
        /\ p.warnings[3].kind = "spending_exceeds_income"
        /\ p.net_flow < 0

\* The growth-adjusted amounts of the sources S in a month, summed
GrownIncome(S, month) ==
    SumOver([i \in S |-> inputs.recurring_income[i].amount
                             * Growth(inputs.income_growth_rate, month)], S)

\* C24: in the snapshot of a month m >= 1 a recurring income source
\* contributes iff start_month <= m and (end_month is unset or m <= end_month):
\* the recurring income of the month is the sum of the growth-adjusted amounts
\* of those sources, a category is a key of the breakdown iff one of them has
\* it, and its entry is the sum over those that have it; so a source with
\* start_month > end_month contributes to no month.
C24_ActiveWindow ==
    \A p \in LaterSnapshots :
        /\ p.income - get_one_time_transactions(inputs, p.month).income
               = GrownIncome(ActiveSources(inputs, p.month), p.month)
        /\ \A member \in IncomeCategory :
               /\ IncomeCategoryValue(member) \in DOMAIN p.income_breakdown <=>
                      \E i \in ActiveSources(inputs, p.month) :
                          inputs.recurring_income[i].category = member
               /\ IncomeCategoryValue(member) \in DOMAIN p.income_breakdown =>
                      p.income_breakdown[IncomeCategoryValue(member)] =
                          GrownIncome({i \in ActiveSources(inputs, p.month) :
                                          inputs.recurring_income[i].category = member},
                                      p.month)

C24_Witness ==
    \E p \in LaterSnapshots :
        /\ p.month = 2
        /\ "freelance" \notin DOMAIN p.income_breakdown
        /\ "salary" \in DOMAIN p.income_breakdown
        /\ \E i \in 1..Len(inputs.recurring_income) :
               /\ inputs.recurring_income[i].category = "FREELANCE"
               /\ inputs.recurring_income[i].amount > 0
               /\ inputs.recurring_income[i].start_month = 2
               /\ inputs.recurring_income[i].end_month = Some(1)

\* The amounts of the transactions of a list that bear the month, summed
OneTimeAt(transactions, month) ==
    SumOver([i \in {k \in 1..Len(transactions) : transactions[k].month = month}
                |-> transactions[i].amount],
            {k \in 1..Len(transactions) : transactions[k].month = month})

\* C25: a one-time transaction of month k counts in the snapshot of month k
\* only: the income (expenses) of the snapshot of a month m >= 1 is the
\* recurring income (expenses) of m plus the sum of the one-time amounts whose
\* month is m, and its closing balance is current_balance plus, over the
\* months 1..m, the recurring net flows and the one-time amounts of those
\* months; transactions of month 0 or of a month past the horizon are in no
\* snapshot.
C25_OneTimeOwnMonthOnly ==
    \A p \in LaterSnapshots :
        /\ p.income = calculate_monthly_income(inputs, p.month).total
                          + OneTimeAt(inputs.one_time_income, p.month)
        /\ p.expenses = calculate_monthly_expense(inputs, p.month).total
                            + OneTimeAt(inputs.one_time_expenses, p.month)
        /\ p.closing_balance =
               inputs.current_balance
               + SumOver([j \in 1..p.month |->
                             calculate_monthly_income(inputs, j).total
                             - calculate_monthly_expense(inputs, j).total
                             + OneTimeAt(inputs.one_time_income, j)
                             - OneTimeAt(inputs.one_time_expenses, j)],
                         1..p.month)

C25_Witness ==
    \E p, q \in LaterSnapshots :
        /\ p.month = 1
        /\ q.month = 2
        /\ Cardinality({k \in 1..Len(inputs.one_time_income) :
                           inputs.one_time_income[k].month = 1}) = 2
        /\ p.income_breakdown["one_time"] = OneTimeAt(inputs.one_time_income, 1)
        /\ "one_time" \notin DOMAIN q.income_breakdown

\* C26: every entry of the income_breakdown of a snapshot is non-zero: an
\* active source of amount 0 adds no key.
C26_IncomeBreakdownNonZero ==
    \A p \in Snapshots :
        \A key \in DOMAIN p.income_breakdown : p.income_breakdown[key] # 0

\* C27: in every snapshot the values of expense_breakdown sum to expenses and
\* the values of income_breakdown sum to income, also when monthly_expenses
\* has a category named "one_time" in a month with a one-time expense.
C27_BreakdownsSumToTotals ==
    \A p \in Snapshots :
        /\ SumValues(p.expense_breakdown) = p.expenses
        /\ SumValues(p.income_breakdown) = p.income

\* C28: in every summary, whatever calls came before, total_change equals
\* total_net_flow, initial_balance is the closing balance of the first
\* snapshot, and total_income and total_expenses are the sums of the
\* snapshots' income and expenses over one pass of the months 0..horizon.
C28_ChangeEqualsNetFlow ==
    ret.kind = "summary" =>
        /\ ret.value.total_change = ret.value.total_net_flow
        /\ ret.value.initial_balance = predictions[1].closing_balance
        /\ ret.value.total_income =
               SumOver([i \in 1..Len(predictions) |-> predictions[i].income],
                       {i \in 1..Len(predictions) : i <= inputs.prediction_months + 1})
        /\ ret.value.total_expenses =
               SumOver([i \in 1..Len(predictions) |-> predictions[i].expenses],
                       {i \in 1..Len(predictions) : i <= inputs.prediction_months + 1})

\* C29: when critical_threshold is left unset the constructor's default
\* (warning_threshold * 0.5) is at most warning_threshold, whatever
\* warning_threshold is, so the band [critical_threshold, warning_threshold)
\* is never inverted; a critical_threshold that was supplied (0 included) is
\* kept as given.  critical_threshold is in half units.
C29_DefaultCriticalAtMostWarning ==
    [][Construct =>
        IF inputs.critical_threshold = None
        THEN inputs'.critical_threshold[1] <= Halves(inputs'.warning_threshold)
        ELSE inputs'.critical_threshold = inputs.critical_threshold]_vars

===========================================================================
